---- MODULE Spec2Model ----
(***************************************************************************)
(* State-machine model of the Posts resource (routes/api/posts.js): the    *)
(* eight request handlers over the Post store, run one request at a time   *)
(* (Spec; SpecLikes and SpecComments are its likes and comments routes),   *)
(* and the like / unlike handlers split at their awaits so that requests   *)
(* overlap (SpecConc).  A handler is entered after the auth middleware has *)
(* resolved req.user.id.  Its input `fault` says that the first store call *)
(* it awaits rejects.                                                      *)
(***************************************************************************)
EXTENDS Integers, Sequences, FiniteSets, TLC

\* ---- bounds ----
NumUsers == 2
MaxPosts == 1
MaxComments == 2
NumReqs == 2

Users == 1..NumUsers
PostIds == 1..MaxPosts
CommentIds == 1..MaxComments
ReqIds == 1..NumReqs

\* an :id parameter that is not a well-formed object id (findById rejects
\* with a CastError)
BadId == 0
\* req.body.text: empty (rejected by the validator) or not
Texts == {"", "t"}
\* status of a request whose handler never called res.*
NoResponse == 0

VARIABLES posts, nextPost, nextComment, last, reqs

vars == <<posts, nextPost, nextComment, last, reqs>>

\* what findById resolves to when no document has the id (null)
NoPost == [exists |-> FALSE, user |-> 0, text |-> "", date |-> 0,
           likes |-> <<>>, comments |-> <<>>]

NoRequest == [op |-> "none", uid |-> 0, pid |-> 0, cid |-> 0,
              status |-> NoResponse, body |-> <<>>, before |-> <<>>,
              afterLike |-> FALSE]

\* a request slot of the overlapping runs: where the handler is, the
\* document it read, its response, and (history) the requests that had read
\* and not yet saved when this one saved
IdleReq == [pc |-> "idle", op |-> "none", uid |-> 0, pid |-> 0,
            snap |-> NoPost, status |-> NoResponse, during |-> {}]

\* ---- array helpers with the semantics of the JavaScript built-ins ----

\* Array.prototype.indexOf: 0-based index of the first match, -1 if none
IndexOf(seq, x) ==
    IF \E i \in 1..Len(seq) : seq[i] = x
    THEN (CHOOSE i \in 1..Len(seq) :
              /\ seq[i] = x
              /\ \A j \in 1..(i - 1) : seq[j] # x) - 1
    ELSE -1

\* Array.prototype.splice(start, 1): a negative start counts from the end
Splice(seq, start) ==
    LET len == Len(seq)
        s0 == IF start < 0
              THEN (IF len + start < 0 THEN 0 ELSE len + start)
              ELSE (IF start > len THEN len ELSE start)
    IN  [i \in 1..(IF s0 < len THEN len - 1 ELSE len) |->
             IF i <= s0 THEN seq[i] ELSE seq[i + 1]]

\* variant: push, the new element goes to the end
UnshiftAsPush(seq, x) == seq \o <<x>>

\* Array.prototype.unshift
Unshift(seq, x) == <<x>> \o seq

\* array.map(e => e.user.toString())
MapUser(seq) == [i \in 1..Len(seq) |-> seq[i].user]

\* array.map(e => e.id), the ids of a comments array
MapId(seq) == [i \in 1..Len(seq) |-> seq[i].id]

\* array.filter(like => like.user.toString() === uid).length
CountUser(seq, uid) == Cardinality({i \in 1..Len(seq) : seq[i].user = uid})

\* array.find(comment => comment.id === cid): 1-based position, 0 if none
FindComment(comments, cid) ==
    IF \E i \in 1..Len(comments) : comments[i].id = cid
    THEN CHOOSE i \in 1..Len(comments) :
              /\ comments[i].id = cid
              /\ \A j \in 1..(i - 1) : comments[j].id # cid
    ELSE 0

\* ---- the store ----

\* Post.findById(id): "cast" when the id is malformed, "error" when the store
\* call rejects, otherwise "ok" (the document, or null, is posts[id])
FindById(pid, fault) ==
    IF pid = BadId THEN "cast" ELSE IF fault THEN "error" ELSE "ok"

\* Post.find().sort({ date: -1 }): the ids of the stored posts, newest first
RECURSIVE SortByDateDesc(_)
SortByDateDesc(ids) ==
    IF ids = {} THEN <<>>
    ELSE LET newest == CHOOSE p \in ids :
                           \A q \in ids : posts[q].date <= posts[p].date
         IN  <<newest>> \o SortByDateDesc(ids \ {newest})

\* The request just answered and its response: res.status(status) and the
\* sequence sent as the body (0: nothing was sent).  before and afterLike
\* are history: the likes a successful like found, and whether the request
\* before this one was a successful like by the same user on the same post.
Respond(op, uid, pid, cid, status, body) ==
    last' = [op |-> op, uid |-> uid, pid |-> pid, cid |-> cid,
             status |-> status, body |-> body,
             before |-> IF op = "like" /\ status = 200
                        THEN posts[pid].likes ELSE <<>>,
             afterLike |-> /\ op = "unlike"
                           /\ last.op = "like"
                           /\ last.status = 200
                           /\ last.uid = uid
                           /\ last.pid = pid]

Init ==
    /\ posts = [p \in PostIds |-> NoPost]
    /\ nextPost = 1
    /\ nextComment = 1
    /\ last = NoRequest
    /\ reqs = [r \in ReqIds |-> IdleReq]

\* ---- POST api/posts ----

\* the fields the Post schema fills in on `new Post(...)`: empty likes and
\* comments, date = now (a logical clock: the creation rank)
SchemaDefaults == [likes |-> <<>>, comments |-> <<>>, date |-> nextPost]

CreatePost(uid, text, fault) ==
    /\ nextPost <= MaxPosts
    /\ UNCHANGED <<nextComment, reqs>>
    /\ IF text = ""
       THEN /\ Respond("create", uid, 0, 0, 400, <<>>)
            /\ UNCHANGED <<posts, nextPost>>
       ELSE IF fault
       THEN /\ Respond("create", uid, 0, 0, 500, <<>>)
            /\ UNCHANGED <<posts, nextPost>>
       ELSE /\ posts' = [posts EXCEPT ![nextPost] =
                            [exists |-> TRUE, user |-> uid, text |-> text,
                             date |-> SchemaDefaults.date,
                             likes |-> SchemaDefaults.likes,
                             comments |-> SchemaDefaults.comments]]
            /\ nextPost' = nextPost + 1
            /\ Respond("create", uid, nextPost, 0, 200, <<>>)

\* ---- GET api/posts ----
ListPosts(uid, fault) ==
    /\ UNCHANGED <<posts, nextPost, nextComment, reqs>>
    /\ IF fault
       THEN Respond("list", uid, 0, 0, 500, <<>>)
       ELSE Respond("list", uid, 0, 0, 200,
                    SortByDateDesc({p \in PostIds : posts[p].exists}))

\* ---- GET api/posts/:id ----
GetPost(uid, pid, fault) ==
    /\ UNCHANGED <<posts, nextPost, nextComment, reqs>>
    /\ IF FindById(pid, fault) = "cast"
       THEN Respond("get", uid, pid, 0, 404, <<>>)
       ELSE IF FindById(pid, fault) = "error"
       THEN Respond("get", uid, pid, 0, 500, <<>>)
       ELSE IF ~posts[pid].exists
       THEN Respond("get", uid, pid, 0, 404, <<>>)
       ELSE Respond("get", uid, pid, 0, 200, <<>>)

\* ---- DELETE api/posts/:id ----

\* variant: post.user !== req.user.id, an ObjectId is never === a string
NotPostOwnerNoToString(post, uid) == TRUE

\* post.user.toString() !== req.user.id
NotPostOwner(post, uid) == post.user # uid

DeletePost(uid, pid, fault) ==
    /\ UNCHANGED <<nextPost, nextComment, reqs>>
    /\ IF FindById(pid, fault) = "cast"
       THEN /\ Respond("delete", uid, pid, 0, 404, <<>>)
            /\ UNCHANGED posts
       ELSE IF FindById(pid, fault) = "error"
       THEN /\ Respond("delete", uid, pid, 0, 500, <<>>)
            /\ UNCHANGED posts
       ELSE IF ~posts[pid].exists
       THEN /\ Respond("delete", uid, pid, 0, 404, <<>>)
            /\ UNCHANGED posts
       ELSE IF NotPostOwner(posts[pid], uid)
       THEN /\ Respond("delete", uid, pid, 0, 401, <<>>)
            /\ UNCHANGED posts
       ELSE /\ posts' = [posts EXCEPT ![pid] = NoPost]
            /\ Respond("delete", uid, pid, 0, 200, <<>>)

\* variant: the save sends the new like alone, to be put in front of
\* whatever is stored by then
SaveLikesAsPush(pid, likes) ==
    [posts EXCEPT ![pid].likes =
        IF likes # <<>> /\ Len(likes) >= Len(@)
        THEN <<likes[1]>> \o @ ELSE likes]

\* post.save() after the likes array was replaced in memory (unshift and
\* splice mark the whole array modified): the stored array becomes the
\* in-memory one, whatever was stored in between
SaveLikes(pid, likes) == [posts EXCEPT ![pid].likes = likes]

\* post.save() after the comments array was replaced in memory
SaveComments(pid, comments) == [posts EXCEPT ![pid].comments = comments]

\* ---- PUT api/posts/like/:id ----

\* variant: only the most recent like is compared
AlreadyLikedFirstOnly(likes, uid) ==
    Len(likes) > 0 /\ likes[1].user = uid

\* post.likes.filter(like => like.user.toString() === req.user.id).length > 0
AlreadyLiked(likes, uid) == CountUser(likes, uid) > 0

\* variant: the 400 is sent without `return`, the handler goes on to save
LikeOutcomeNoReturn(post, uid) ==
    IF ~post.exists
    THEN [status |-> 500, msg |-> "Server Error", save |-> FALSE,
          likes |-> <<>>]
    ELSE [status |-> IF CountUser(post.likes, uid) > 0 THEN 400 ELSE 200,
          msg |-> "", save |-> TRUE,
          likes |-> Unshift(post.likes, [user |-> uid])]

\* the handler body run on the document findById resolved to (NoPost: null,
\* reading post.likes throws a TypeError, caught as 500)
LikeOutcome(post, uid) ==
    IF ~post.exists
    THEN [status |-> 500, msg |-> "Server Error", save |-> FALSE,
          likes |-> <<>>]
    ELSE IF AlreadyLiked(post.likes, uid)
    THEN [status |-> 400, msg |-> "Post already liked", save |-> FALSE,
          likes |-> post.likes]
    ELSE [status |-> 200, msg |-> "", save |-> TRUE,
          likes |-> Unshift(post.likes, [user |-> uid])]

LikePost(uid, pid, fault) ==
    /\ UNCHANGED <<nextPost, nextComment, reqs>>
    /\ IF FindById(pid, fault) # "ok"
       THEN /\ Respond("like", uid, pid, 0, 500, <<>>)
            /\ UNCHANGED posts
       ELSE LET out == LikeOutcome(posts[pid], uid)
            IN  /\ posts' = IF out.save THEN SaveLikes(pid, out.likes)
                            ELSE posts
                /\ Respond("like", uid, pid, 0, out.status,
                           IF out.save THEN MapUser(out.likes) ELSE <<>>)

\* ---- PUT api/posts/unlike/:id ----

\* post.likes.filter(like => like.user.toString() === req.user.id).length === 0
NotYetLiked(likes, uid) == CountUser(likes, uid) = 0

\* variant: the index of the last entry, whoever it belongs to
LikeRemoveIndexLast(likes, uid) == Len(likes) - 1

\* post.likes.map(like => like.user.toString()).indexOf(req.user.id)
LikeRemoveIndex(likes, uid) == IndexOf(MapUser(likes), uid)

UnlikeOutcome(post, uid) ==
    IF ~post.exists
    THEN [status |-> 500, msg |-> "Server Error", save |-> FALSE,
          likes |-> <<>>]
    ELSE IF NotYetLiked(post.likes, uid)
    THEN [status |-> 400, msg |-> "Post has not yet been liked",
          save |-> FALSE, likes |-> post.likes]
    ELSE [status |-> 200, msg |-> "", save |-> TRUE,
          likes |-> Splice(post.likes, LikeRemoveIndex(post.likes, uid))]

UnlikePost(uid, pid, fault) ==
    /\ UNCHANGED <<nextPost, nextComment, reqs>>
    /\ IF FindById(pid, fault) # "ok"
       THEN /\ Respond("unlike", uid, pid, 0, 500, <<>>)
            /\ UNCHANGED posts
       ELSE LET out == UnlikeOutcome(posts[pid], uid)
            IN  /\ posts' = IF out.save THEN SaveLikes(pid, out.likes)
                            ELSE posts
                /\ Respond("unlike", uid, pid, 0, out.status,
                           IF out.save THEN MapUser(out.likes) ELSE <<>>)

\* ---- POST api/posts/comment/:id ----

\* the newComment object, with the id the store gives the subdocument
NewComment(uid, text) == [id |-> nextComment, user |-> uid, text |-> text]

AddComment(uid, pid, text, fault) ==
    /\ nextComment <= MaxComments
    /\ UNCHANGED <<nextPost, reqs>>
    /\ IF text = ""
       THEN /\ Respond("comment", uid, pid, 0, 400, <<>>)
            /\ UNCHANGED <<posts, nextComment>>
       ELSE IF FindById(pid, fault) # "ok" \/ ~posts[pid].exists
       THEN /\ Respond("comment", uid, pid, 0, 500, <<>>)
            /\ UNCHANGED <<posts, nextComment>>
       ELSE LET comments == Unshift(posts[pid].comments,
                                    NewComment(uid, text))
            IN  /\ posts' = SaveComments(pid, comments)
                /\ nextComment' = nextComment + 1
                /\ Respond("comment", uid, pid, nextComment, 200,
                           MapId(comments))

\* ---- DELETE api/posts/comment/:id/:comment_id ----

\* post.comments.map(comment => comment.user.toString()).indexOf(req.user.id)
CommentRemoveIndex(comments, uid) == IndexOf(MapUser(comments), uid)

\* variant: the ownership check is missing
NotCommentOwnerMissing(comment, uid) == FALSE

\* comment.user.toString() !== req.user.id
NotCommentOwner(comment, uid) == comment.user # uid

DeleteComment(uid, pid, cid, fault) ==
    /\ UNCHANGED <<nextPost, nextComment, reqs>>
    /\ IF FindById(pid, fault) # "ok" \/ ~posts[pid].exists
       THEN \* the catch block names its parameter `error` and reads
            \* `err.message`: it throws a ReferenceError itself, the async
            \* handler rejects and nothing is sent
            /\ Respond("delcomment", uid, pid, cid, NoResponse, <<>>)
            /\ UNCHANGED posts
       ELSE LET comments == posts[pid].comments
                found == FindComment(comments, cid)
            IN  IF found = 0
                THEN /\ Respond("delcomment", uid, pid, cid, 404, <<>>)
                     /\ UNCHANGED posts
                ELSE IF NotCommentOwner(comments[found], uid)
                THEN /\ Respond("delcomment", uid, pid, cid, 401, <<>>)
                     /\ UNCHANGED posts
                ELSE LET rest == Splice(comments,
                                        CommentRemoveIndex(comments, uid))
                     IN  /\ posts' = SaveComments(pid, rest)
                         /\ Respond("delcomment", uid, pid, cid, 200,
                                    MapId(rest))

\* ---- overlapping like / unlike requests ----
\* A handler runs up to its first await (findById), resumes with the document
\* it read, and saves; other requests run in between.

\* request slots are taken in arrival order: r is the next request to arrive
Arrives(r) ==
    /\ reqs[r].pc = "idle"
    /\ \A q \in ReqIds : q < r => reqs[q].pc # "idle"

\* the other requests that have read their document and not yet saved
InFlight(r) == {q \in ReqIds \ {r} : reqs[q].pc = "read"}

LikeRead(r, uid, pid) ==
    /\ Arrives(r)
    /\ reqs' = [reqs EXCEPT ![r] = [pc |-> "read", op |-> "like",
                                    uid |-> uid, pid |-> pid,
                                    snap |-> posts[pid],
                                    status |-> NoResponse, during |-> {}]]
    /\ UNCHANGED <<posts, nextPost, nextComment, last>>

LikeSave(r) ==
    /\ reqs[r].pc = "read"
    /\ reqs[r].op = "like"
    /\ LET out == LikeOutcome(reqs[r].snap, reqs[r].uid)
       IN  /\ posts' = IF out.save THEN SaveLikes(reqs[r].pid, out.likes)
                       ELSE posts
           /\ reqs' = [reqs EXCEPT ![r].pc = "done",
                                   ![r].status = out.status,
                                   ![r].during = InFlight(r)]
    /\ UNCHANGED <<nextPost, nextComment, last>>

UnlikeRead(r, uid, pid) ==
    /\ Arrives(r)
    /\ reqs' = [reqs EXCEPT ![r] = [pc |-> "read", op |-> "unlike",
                                    uid |-> uid, pid |-> pid,
                                    snap |-> posts[pid],
                                    status |-> NoResponse, during |-> {}]]
    /\ UNCHANGED <<posts, nextPost, nextComment, last>>

UnlikeSave(r) ==
    /\ reqs[r].pc = "read"
    /\ reqs[r].op = "unlike"
    /\ LET out == UnlikeOutcome(reqs[r].snap, reqs[r].uid)
       IN  /\ posts' = IF out.save THEN SaveLikes(reqs[r].pid, out.likes)
                       ELSE posts
           /\ reqs' = [reqs EXCEPT ![r].pc = "done",
                                   ![r].status = out.status,
                                   ![r].during = InFlight(r)]
    /\ UNCHANGED <<nextPost, nextComment, last>>

Next ==
    \/ \E uid \in Users, text \in Texts, fault \in BOOLEAN :
           CreatePost(uid, text, fault)
    \/ \E uid \in Users, fault \in BOOLEAN : ListPosts(uid, fault)
    \/ \E uid \in Users, pid \in PostIds \cup {BadId}, fault \in BOOLEAN :
           GetPost(uid, pid, fault)
    \/ \E uid \in Users, pid \in PostIds \cup {BadId}, fault \in BOOLEAN :
           DeletePost(uid, pid, fault)
    \/ \E uid \in Users, pid \in PostIds \cup {BadId}, fault \in BOOLEAN :
           LikePost(uid, pid, fault)
    \/ \E uid \in Users, pid \in PostIds \cup {BadId}, fault \in BOOLEAN :
           UnlikePost(uid, pid, fault)
    \/ \E uid \in Users, pid \in PostIds \cup {BadId}, text \in Texts,
          fault \in BOOLEAN :
           AddComment(uid, pid, text, fault)
    \/ \E uid \in Users, pid \in PostIds \cup {BadId}, cid \in CommentIds,
          fault \in BOOLEAN :
           DeleteComment(uid, pid, cid, fault)

\* requests handled one at a time
Spec == Init /\ [][Next]_vars

\* one request at a time, the handlers that read or write likes
NextLikes ==
    \/ \E uid \in Users, text \in Texts, fault \in BOOLEAN :
           CreatePost(uid, text, fault)
    \/ \E uid \in Users, fault \in BOOLEAN : ListPosts(uid, fault)
    \/ \E uid \in Users, pid \in PostIds \cup {BadId}, fault \in BOOLEAN :
           GetPost(uid, pid, fault)
    \/ \E uid \in Users, pid \in PostIds \cup {BadId}, fault \in BOOLEAN :
           DeletePost(uid, pid, fault)
    \/ \E uid \in Users, pid \in PostIds \cup {BadId}, fault \in BOOLEAN :
           LikePost(uid, pid, fault)
    \/ \E uid \in Users, pid \in PostIds \cup {BadId}, fault \in BOOLEAN :
           UnlikePost(uid, pid, fault)

SpecLikes == Init /\ [][NextLikes]_vars

\* one request at a time, the handlers that read or write comments
NextComments ==
    \/ \E uid \in Users, text \in Texts, fault \in BOOLEAN :
           CreatePost(uid, text, fault)
    \/ \E uid \in Users, pid \in PostIds \cup {BadId}, fault \in BOOLEAN :
           DeletePost(uid, pid, fault)
    \/ \E uid \in Users, pid \in PostIds \cup {BadId}, text \in Texts,
          fault \in BOOLEAN :
           AddComment(uid, pid, text, fault)
    \/ \E uid \in Users, pid \in PostIds \cup {BadId}, cid \in CommentIds,
          fault \in BOOLEAN :
           DeleteComment(uid, pid, cid, fault)

SpecComments == Init /\ [][NextComments]_vars

NextConc ==
    \/ \E uid \in Users : CreatePost(uid, "t", FALSE)
    \/ \E r \in ReqIds, uid \in Users, pid \in PostIds : LikeRead(r, uid, pid)
    \/ \E r \in ReqIds : LikeSave(r)
    \/ \E r \in ReqIds, uid \in Users, pid \in PostIds :
           UnlikeRead(r, uid, pid)
    \/ \E r \in ReqIds : UnlikeSave(r)

\* like and unlike requests overlapping at their awaits
SpecConc == Init /\ [][NextConc]_vars

\* ---- vocabulary of the properties ----

\* the users with an entry in the stored likes of post p
Likers(p) == {posts[p].likes[i].user : i \in 1..Len(posts[p].likes)}

\* how many entries user u has in the stored likes of post p
LikeCount(p, u) ==
    Cardinality({i \in 1..Len(posts[p].likes) : posts[p].likes[i].user = u})

\* a request was answered (something other than the initial record)
Answered == last.op # "none"

\* the step handles a request op on a well-formed post id; last' names the
\* request's user, post id and comment id
Handles(op) == last'.op = op /\ last'.pid \in PostIds

\* ---- C1 ----
\* C1: with requests handled one at a time, after any sequence of requests
\* every stored post's likes holds at most one entry per user id.
AtMostOneLikePerUser ==
    \A p \in PostIds : \A u \in Users : LikeCount(p, u) <= 1

\* a like just succeeded on a post that now holds likes of two users
AtMostOneLikePerUserWitness ==
    /\ last.op = "like"
    /\ last.status = 200
    /\ Cardinality(Likers(last.pid)) >= 2

\* ---- C6 ----
\* C6: a like by a user with no entry in the post's likes succeeds and adds
\* the user; a like by a user who already has one (liked before, no unlike
\* since) is answered 400 and leaves the stored likes as they were.
SecondLikeRejected ==
    [][LET u == last'.uid
           p == last'.pid
       IN  (Handles("like") /\ LikePost(u, p, FALSE) /\ posts[p].exists)
               => IF u \in Likers(p)
                  THEN last'.status = 400 /\ posts' = posts
                  ELSE /\ last'.status = 200
                       /\ posts'[p].likes # posts[p].likes
      ]_vars

\* the second like was just refused: the request before it had put the user
\* in the likes, which are still the ones that request returned
SecondLikeRejectedWitness ==
    /\ last.op = "like"
    /\ last.status = 400
    /\ last.uid \in Likers(last.pid)

\* ---- C7 ----
\* C7: a like by a user with no entry in an existing post's likes succeeds,
\* and an unlike by that user as the next request succeeds too and stores
\* the likes sequence the like had found: same length, members and order.
LikeThenUnlikeRestores ==
    [][LET u == last'.uid
           p == last'.pid
       IN  /\ (/\ Handles("like")
               /\ LikePost(u, p, FALSE)
               /\ posts[p].exists
               /\ u \notin Likers(p))
                  => last'.status = 200
           /\ (/\ Handles("unlike")
               /\ UnlikePost(u, p, FALSE)
               /\ last.op = "like"
               /\ last.status = 200
               /\ last.uid = u
               /\ last.pid = p)
                  => last'.status = 200 /\ posts'[p].likes = last.before
      ]_vars

\* an unlike just undid the like before it, on a post another user likes
LikeThenUnlikeRestoresWitness ==
    /\ last.op = "unlike"
    /\ last.status = 200
    /\ last.afterLike
    /\ Likers(last.pid) # {}

\* ---- C5 ----
\* C5: delete by a user who is not the author of an existing post is
\* answered 401 and leaves the store as it was; delete by the author removes
\* the post; a removed post never comes back, and a get of its id is
\* answered 404.
DeleteOnlyByAuthor ==
    [][LET u == last'.uid
           p == last'.pid
       IN  /\ (/\ Handles("delete")
               /\ DeletePost(u, p, FALSE)
               /\ posts[p].exists
               /\ posts[p].user # u)
                  => last'.status = 401 /\ posts' = posts
           /\ (/\ Handles("delete")
               /\ DeletePost(u, p, FALSE)
               /\ posts[p].exists
               /\ posts[p].user = u)
                  => last'.status = 200 /\ ~posts'[p].exists
           /\ \A q \in PostIds :
                  (q < nextPost /\ ~posts[q].exists) => ~posts'[q].exists
           /\ (/\ Handles("get")
               /\ GetPost(u, p, FALSE)
               /\ p < nextPost
               /\ ~posts[p].exists)
                  => last'.status = 404
      ]_vars

\* a get of a post that was created and then deleted was just answered
DeleteOnlyByAuthorWitness ==
    /\ last.op = "get"
    /\ last.pid \in PostIds
    /\ last.pid < nextPost
    /\ ~posts[last.pid].exists
    /\ last.status = 404

\* ---- C8 ----
\* C8: a successful add_comment puts the new comment at index 0 and keeps
\* the comments that were there in their order behind it; so after two in a
\* row on a post the second is at index 0 and the first at index 1.
AddCommentPrepends ==
    [][LET u == last'.uid
           p == last'.pid
       IN  (/\ Handles("comment")
            /\ AddComment(u, p, "t", FALSE)
            /\ posts[p].exists) =>
               /\ last'.status = 200
               /\ Len(posts'[p].comments) = Len(posts[p].comments) + 1
               /\ posts'[p].comments[1].id = last'.cid
               /\ posts'[p].comments[1].user = u
               /\ \A i \in 1..Len(posts[p].comments) :
                      posts'[p].comments[i + 1] = posts[p].comments[i]
               /\ (last.op = "comment" /\ last.status = 200 /\ last.pid = p)
                      => posts'[p].comments[2].id = last.cid
      ]_vars

\* two comments were just added in a row: the second is first, the first
\* second
AddCommentPrependsWitness ==
    /\ last.op = "comment"
    /\ last.status = 200
    /\ Len(posts[last.pid].comments) >= 2
    /\ posts[last.pid].comments[1].id = last.cid
    /\ posts[last.pid].comments[2].id = last.cid - 1

\* ---- C10 ----
\* the comments of a post whose author is not u, in their stored order
CommentsOfOthers(post, u) ==
    SelectSeq(post.comments, LAMBDA c : c.user # u)

\* C10: with requests handled one at a time, every step that handles a
\* delete_comment request (last' names it) leaves the comments authored by
\* users other than the requester as they were, whatever ids it was given
\* and however it ends.
DeleteCommentSparesOthers ==
    [][last'.op = "delcomment" =>
           \A q \in PostIds :
               CommentsOfOthers(posts'[q], last'.uid) =
                   CommentsOfOthers(posts[q], last'.uid)
      ]_vars

\* a delete_comment just removed a comment from a post that holds a comment
\* of another user
DeleteCommentSparesOthersWitness ==
    /\ last.op = "delcomment"
    /\ last.status = 200
    /\ \E i \in 1..Len(posts[last.pid].comments) :
           posts[last.pid].comments[i].user # last.uid

\* ---- C2 ----
\* the ids of the stored comments of a post, in order
CommentIdsOf(post) == [i \in 1..Len(post.comments) |-> post.comments[i].id]

\* C2: delete_comment by the author of the comment whose id is comment_id
\* removes exactly that comment: the ids left are the ids there were, in
\* their order, without comment_id.
DeleteCommentRemovesThatComment ==
    [][LET u == last'.uid
           p == last'.pid
           c == last'.cid
       IN  (/\ Handles("delcomment")
            /\ DeleteComment(u, p, c, FALSE)
            /\ posts[p].exists
            /\ \E i \in 1..Len(posts[p].comments) :
                   /\ posts[p].comments[i].id = c
                   /\ posts[p].comments[i].user = u)
               => /\ last'.status = 200
                  /\ CommentIdsOf(posts'[p]) =
                         SelectSeq(CommentIdsOf(posts[p]), LAMBDA i : i # c)
      ]_vars

\* ---- C3 ----
\* C3: like, unlike and add_comment on a post id no post has are answered
\* 404 and leave the store as it was.
MissingPostIsNotFound ==
    [][LET u == last'.uid
           p == last'.pid
       IN  (/\ last'.pid \in PostIds
            /\ ~posts[p].exists
            /\ \/ last'.op = "like" /\ LikePost(u, p, FALSE)
               \/ last'.op = "unlike" /\ UnlikePost(u, p, FALSE)
               \/ last'.op = "comment" /\ AddComment(u, p, "t", FALSE))
               => last'.status = 404 /\ posts' = posts
      ]_vars

\* ---- C4 ----
\* C4: every request gets a response, errors raised in the handler included.
EveryRequestAnswered == Answered => last.status # NoResponse

\* ---- C9 ----
\* two like requests of one user on one post that overlapped: both read the
\* post, without a like of the user, before either saved, and both are done
\* with no third request run
OverlappedLikes(r1, r2) ==
    /\ r1 # r2
    /\ reqs[r1].pc = "done" /\ reqs[r2].pc = "done"
    /\ reqs[r1].op = "like" /\ reqs[r2].op = "like"
    /\ reqs[r1].uid = reqs[r2].uid
    /\ reqs[r1].pid = reqs[r2].pid
    /\ r2 \in reqs[r1].during
    /\ reqs[r1].snap.exists /\ reqs[r2].snap.exists
    /\ \A i \in 1..Len(reqs[r1].snap.likes) :
           reqs[r1].snap.likes[i].user # reqs[r1].uid
    /\ \A i \in 1..Len(reqs[r2].snap.likes) :
           reqs[r2].snap.likes[i].user # reqs[r2].uid
    /\ \A q \in ReqIds \ {r1, r2} : reqs[q].pc = "idle"

====
